---------------------------- MODULE Spec2Model ----------------------------
(***************************************************************************)
(* A model of the governance runtime module (runtime/src/governance.rs):   *)
(* the storage items of decl_storage!, the five dispatchable calls of      *)
(* decl_module! and the helpers cast_ballot_f, mint_vote and tally.        *)
(*                                                                         *)
(* Storage maps are partial functions: a key is in the DOMAIN exactly when *)
(* the storage entry exists, and a read of a missing key yields the        *)
(* Default value of the type, as decl_storage! maps do.  A dispatchable    *)
(* that returns Err keeps the writes it made before the error: this        *)
(* runtime has no transactional layer around a call.                       *)
(***************************************************************************)
EXTENDS Integers, Sequences, FiniteSets, Bags, TLC

(***************************************************************************)
(* Bounds of the model.                                                    *)
(***************************************************************************)
\* accounts are 0 .. MaxAccount; 0 is AccountId::default()
MaxAccount == 2
\* create_vote is tried while AllVoteCount < MaxVotes
MaxVotes == 1
\* the host advances the block number up to MaxHeight
MaxHeight == 4
\* u64, BlockNumber and Balance hold 0 .. WordMax (a scaled-down 2^64 - 1)
WordMax == 63

Accounts == 0 .. MaxAccount
RefIds == 1 .. MaxVotes
\* the vote_type: u8 arguments tried: Simple, LockWeighted, and an uncovered one
VoteTypes == {0, 1, 2}
\* the exp_length arguments tried
ExpLengths == {0, 2}
\* the lengths of the data arguments tried
DataLens == {256, 257}
\* the deposit and duration arguments tried by cast_lockvote; the shortest
\* duration ends before a vote cast at its creation height does, the longest
\* overflows the block number when added at the last height
Deposits == {4, 10}
Durations == {1, 5, 60}
Ballots == {"Aye", "Nay"}

VARIABLES
    AllVoteCount,        \* u64
    VotesByIndex,        \* map u64 => Vote
    VoteCreator,         \* map u64 => Option<AccountId>
    CreatedVoteCount,    \* map AccountId => u64
    VoteByCreatorArray,  \* map (AccountId, u64) => Vote
    VoteResults,         \* map u64 => Vec<u64>
    VoteIndexHash,       \* map u64 => Hash
    VotedAccounts,       \* map (ReferenceIndex, u8) => Vec<AccountId>
    LockBalance,         \* map (ReferenceIndex, AccountId) => LockInfo
    Locks,               \* the locks held by T::Currency: (LockIdentifier, AccountId) => amount
    block_number,        \* system::Module<T>::block_number()
    currency_calls,      \* the bag of set_lock and remove_lock calls made to T::Currency
    event_log,           \* the bag of the events deposited so far
    result               \* what the last call returned: "Ok", the Err message or "panic"

store == <<AllVoteCount, VotesByIndex, VoteCreator, CreatedVoteCount,
           VoteByCreatorArray, VoteResults, VoteIndexHash, VotedAccounts,
           LockBalance>>
vars == <<AllVoteCount, VotesByIndex, VoteCreator, CreatedVoteCount,
          VoteByCreatorArray, VoteResults, VoteIndexHash, VotedAccounts,
          LockBalance, Locks, currency_calls, block_number, event_log,
          result>>

(***************************************************************************)
(* Types and their Default values.                                         *)
(***************************************************************************)
DefaultAccount == 0

Vote(id, creator, when, vote_ends, concluded, vote_type) ==
    [id |-> id, creator |-> creator, when |-> when, vote_ends |-> vote_ends,
     concluded |-> concluded, vote_type |-> vote_type]

DefaultVote == Vote(0, DefaultAccount, 0, 0, FALSE, 0)

LockInfo(deposit, duration, until) ==
    [deposit |-> deposit, duration |-> duration, until |-> until]

DefaultLockInfo == LockInfo(0, 0, 0)

\* Ballot::Aye and Ballot::Nay index VotedAccounts as 0 and 1
SideOf(ballot) == IF ballot = "Aye" THEN 0 ELSE 1

(***************************************************************************)
(* Storage access.                                                         *)
(***************************************************************************)
exists(map, key) == key \in DOMAIN map
get(map, key, default) == IF key \in DOMAIN map THEN map[key] ELSE default
insert(map, key, value) == [k \in (DOMAIN map) \cup {key} |->
                               IF k = key THEN value ELSE map[k]]
remove(map, key) == [k \in (DOMAIN map) \ {key} |-> map[k]]
EmptyMap == [k \in {} |-> 0]

votes(id) == get(VotesByIndex, id, DefaultVote)
accounts(id, side) == get(VotedAccounts, <<id, side>>, <<>>)
lock_of(id, who) == get(LockBalance, <<id, who>>, DefaultLockInfo)

(***************************************************************************)
(* Arithmetic of the integer types.                                        *)
(***************************************************************************)
\* checked_add: a one-element sequence for Some(sum), the empty one for None
checked_add(a, b) == IF a + b > WordMax THEN <<>> ELSE <<a + b>>
\* an unchecked +, += or * overflows when the exact value does not fit
overflows(x) == x > WordMax
\* the value a build without overflow checks goes on with
wrap(x) == x % (WordMax + 1)
\* saturated_into::<u64>()
saturated_into(x) == IF x > WordMax THEN WordMax ELSE x

(***************************************************************************)
(* Vec<AccountId> helpers.                                                 *)
(***************************************************************************)
contains(vec, x) == \E i \in 1 .. Len(vec) : vec[i] = x
position(vec, x) == CHOOSE i \in 1 .. Len(vec) :
                        vec[i] = x /\ \A j \in 1 .. (i - 1) : vec[j] # x
remove_at(vec, i) == [j \in 1 .. (Len(vec) - 1) |->
                         IF j < i THEN vec[j] ELSE vec[j + 1]]
push(vec, x) == Append(vec, x)

(***************************************************************************)
(* Collaborators: the currency and the hashing.                            *)
(***************************************************************************)
\* T::Currency::free_balance(who): no call of this module moves funds
free_balance(who) == IF who = MaxAccount THEN 8 ELSE 20

\* reference_index.to_be_bytes(): the eight bytes, most significant first
to_be_bytes(i) == <<0, 0, 0, 0, 0, (i \div 65536) % 256, (i \div 256) % 256, i % 256>>

\* T::Hashing::hash(&data), of a payload given by its length
hash(len) == <<"blake2_256", len>>

Init ==
    /\ AllVoteCount = 0
    /\ VotesByIndex = EmptyMap
    /\ VoteCreator = EmptyMap
    /\ CreatedVoteCount = EmptyMap
    /\ VoteByCreatorArray = EmptyMap
    /\ VoteResults = EmptyMap
    /\ VoteIndexHash = EmptyMap
    /\ VotedAccounts = EmptyMap
    /\ LockBalance = EmptyMap
    /\ Locks = EmptyMap
    /\ block_number = 0
    /\ currency_calls = EmptyBag
    /\ event_log = EmptyBag
    /\ result = "Ok"

\* the currency and the event log, which a call leaves alone until it acts on them
world == <<Locks, currency_calls>>

\* Self::deposit_event(event)
deposit_event(event) == event_log' = event_log (+) SetToBag({event})

Created(who, id) == <<"Created", who, id>>
Voted(who, id, ballot) == <<"Voted", who, id, ballot>>
Concluded(id) == <<"Concluded", id>>
Withdrew(who, id) == <<"Withdrew", who, id>>

\* a call that returns Err(msg) before it has written anything
Fail(msg) ==
    /\ result' = msg
    /\ UNCHANGED <<store, world, event_log, block_number>>

\* an unchecked +, += or * whose exact value does not fit panics in a build with
\* overflow checks, and the host drops the call; without them the call goes on
\* with the wrapped value
on_overflow(overflowing, goes_on) ==
    IF overflowing THEN Fail("panic") \/ goes_on ELSE goes_on

(***************************************************************************)
(* mint_vote and create_vote.                                              *)
(***************************************************************************)
mint_vote_check(new_vote_num) == ~exists(VotesByIndex, new_vote_num)

mint_vote(sender, new_vote, vote_count_by_sender, new_vote_num) ==
    /\ VotesByIndex' = insert(VotesByIndex, new_vote_num, new_vote)
    /\ VoteCreator' = insert(VoteCreator, new_vote_num, sender)
    /\ CreatedVoteCount' = insert(CreatedVoteCount, sender, vote_count_by_sender)
    /\ AllVoteCount' = new_vote_num
    /\ VoteByCreatorArray' = insert(VoteByCreatorArray, <<sender, new_vote_num>>, new_vote)
    /\ deposit_event(Created(sender, new_vote_num))

create_vote(sender, vote_type, exp_length, data_len) ==
    /\ AllVoteCount < MaxVotes
    /\ LET new_vote_num == checked_add(AllVoteCount, 1)
           vote_count_by_sender == checked_add(get(CreatedVoteCount, sender, 0), 1)
           now == block_number
           vote_exp == checked_add(now, exp_length)
       IN  IF data_len > 256
             THEN Fail("listing data cannot be more than 256 bytes")
           ELSE IF new_vote_num = <<>>
             THEN Fail("Overflow adding vote count")
           ELSE IF vote_count_by_sender = <<>>
             THEN Fail("Overflow adding vote count to the sender")
           ELSE IF vote_exp = <<>>
             THEN Fail("Overflow when setting application expiry.")
           ELSE IF ~mint_vote_check(new_vote_num[1])
             THEN Fail("Vote already exists")
           ELSE /\ mint_vote(sender,
                             Vote(new_vote_num[1], sender, now, vote_exp[1], FALSE, vote_type),
                             vote_count_by_sender[1], new_vote_num[1])
                /\ VoteIndexHash' = insert(VoteIndexHash, new_vote_num[1], hash(data_len))
                /\ result' = "Ok"
                /\ UNCHANGED <<VoteResults, VotedAccounts, LockBalance, world, block_number>>

(***************************************************************************)
(* The recording of a ballot: the match of cast_ballot, and cast_ballot_f. *)
(* Each yields the error, or the VotedAccounts map after its insert.       *)
(***************************************************************************)
\* a variant: the sender is appended without the contains check
cast_ballot_match_unchecked(sender, reference_index, ballot) ==
    LET side == IF ballot = "Aye" THEN 0 ELSE 1
    IN  [err |-> "Ok",
         voted |-> insert(VotedAccounts, <<reference_index, side>>,
                          push(accounts(reference_index, side), sender))]

cast_ballot_match(sender, reference_index, ballot) ==
    LET accounts_aye == accounts(reference_index, 0)
        accounts_nay == accounts(reference_index, 1)
        \* the local vectors after accounts_nay.remove(i) and accounts_aye.remove(i)
        nay_local == IF contains(accounts_nay, sender)
                     THEN remove_at(accounts_nay, position(accounts_nay, sender))
                     ELSE accounts_nay
        aye_local == IF contains(accounts_aye, sender)
                     THEN remove_at(accounts_aye, position(accounts_aye, sender))
                     ELSE accounts_aye
    IN  IF ballot = "Aye"
        THEN IF contains(accounts_aye, sender)
             THEN [err |-> "You have already voted aye.", voted |-> VotedAccounts]
             ELSE \* nay_local is dropped: only (reference_index, 0) is inserted
                  [err |-> "Ok",
                   voted |-> insert(VotedAccounts, <<reference_index, 0>>,
                                    push(accounts_aye, sender))]
        ELSE IF contains(accounts_nay, sender)
             THEN [err |-> "You have already voted nay.", voted |-> VotedAccounts]
             ELSE \* aye_local is dropped: only (reference_index, 1) is inserted
                  [err |-> "Ok",
                   voted |-> insert(VotedAccounts, <<reference_index, 1>>,
                                    push(accounts_nay, sender))]

cast_ballot_f(sender, reference_index, ballot) ==
    LET accounts_aye == accounts(reference_index, 0)
        accounts_nay == accounts(reference_index, 1)
        \* the local vectors after accounts_nay.remove(i) and accounts_aye.remove(i)
        nay_local == IF contains(accounts_nay, sender)
                     THEN remove_at(accounts_nay, position(accounts_nay, sender))
                     ELSE accounts_nay
        aye_local == IF contains(accounts_aye, sender)
                     THEN remove_at(accounts_aye, position(accounts_aye, sender))
                     ELSE accounts_aye
    IN  IF ballot = "Aye"
        THEN IF contains(accounts_aye, sender)
             THEN [err |-> "You have already voted aye.", voted |-> VotedAccounts]
             ELSE [err |-> "Ok",
                   voted |-> insert(VotedAccounts, <<reference_index, 0>>,
                                    push(accounts_aye, sender))]
        ELSE IF contains(accounts_nay, sender)
             THEN [err |-> "You have already voted nay.", voted |-> VotedAccounts]
             ELSE [err |-> "Ok",
                   voted |-> insert(VotedAccounts, <<reference_index, 1>>,
                                    push(accounts_nay, sender))]

(***************************************************************************)
(* cast_ballot.                                                            *)
(***************************************************************************)
ballot_creator_ok(vote, sender) == vote.creator # sender
\* a variant: a ballot is still taken at the expiry height
ballot_open_at_expiry(vote, now) == vote.vote_ends >= now
ballot_open_ok(vote, now) == vote.vote_ends > now
ballot_type_ok(vote) == vote.vote_type = 0

cast_ballot(sender, reference_index, ballot) ==
    /\ LET vote == votes(reference_index)
           now == block_number
           rec == cast_ballot_match(sender, reference_index, ballot)
       IN  IF ~exists(VotesByIndex, reference_index)
             THEN Fail("Vote doesn't exists")
           ELSE IF ~ballot_creator_ok(vote, sender)
             THEN Fail("You cannot vote your own vote.")
           ELSE IF ~ballot_open_ok(vote, now)
             THEN Fail("This vote has already been expired.")
           ELSE IF ~ballot_type_ok(vote)
             THEN Fail("This vote is LockVote. Use 'cast_lockvote' instead!")
           ELSE IF rec.err # "Ok"
             THEN Fail(rec.err)
           ELSE /\ VotedAccounts' = rec.voted
                /\ deposit_event(Voted(sender, reference_index, ballot))
                /\ result' = "Ok"
                /\ UNCHANGED <<AllVoteCount, VotesByIndex, VoteCreator, CreatedVoteCount,
                               VoteByCreatorArray, VoteResults, VoteIndexHash,
                               LockBalance, world, block_number>>

(***************************************************************************)
(* cast_lockvote.  The ensure! checks run in the order of the source; the  *)
(* LockBalance entry and the currency lock are written before              *)
(* cast_ballot_f runs, and stay written when it returns Err.               *)
(***************************************************************************)
\* a variant: a lock may end before the vote does
lockvote_duration_skipped(now, duration, vote) == TRUE
lockvote_duration_ok(now, duration, vote) == wrap(now + duration) >= vote.vote_ends
\* a variant: a second lock vote is let through
lockvote_once_skipped(reference_index, sender) == TRUE
lockvote_once_ok(reference_index, sender) ==
    ~exists(LockBalance, <<reference_index, sender>>)
lockvote_balance_ok(sender, deposit) == free_balance(sender) > deposit
\* a variant: the creator may lock vote
lockvote_creator_skipped(vote, sender) == TRUE
lockvote_creator_ok(vote, sender) == vote.creator # sender
lockvote_open_ok(vote, now) == vote.vote_ends > now
\* a variant: a lock vote is taken on a vote of any type
lockvote_type_skipped(vote) == TRUE
lockvote_type_ok(vote) == vote.vote_type = 1

\* <LockBalance<T>>::mutate(key, |lockinfo| ...), on the stored or the Default entry
lockvote_mutate(reference_index, sender, deposit, duration, current_blocknumber) ==
    LET lockinfo == lock_of(reference_index, sender)
    IN  insert(LockBalance, <<reference_index, sender>>,
               LockInfo(wrap(lockinfo.deposit + deposit), duration,
                        wrap(current_blocknumber + duration)))

\* T::Currency::set_lock(id, who, amount, ..): one lock per identifier and account
set_lock(lock_id, who, amount) ==
    /\ Locks' = insert(Locks, <<lock_id, who>>, amount)
    /\ currency_calls' = currency_calls (+) SetToBag({<<"set_lock", lock_id, who>>})

\* T::Currency::remove_lock(id, who)
remove_lock(lock_id, who) ==
    /\ Locks' = remove(Locks, <<lock_id, who>>)
    /\ currency_calls' = currency_calls (+) SetToBag({<<"remove_lock", lock_id, who>>})

cast_lockvote(sender, reference_index, ballot, deposit, duration) ==
    /\ LET vote == votes(reference_index)
           now == block_number
           lock_id == to_be_bytes(reference_index)
           current_blocknumber == block_number
           rec == cast_ballot_f(sender, reference_index, ballot)
       IN  on_overflow(overflows(now + duration),
           IF ~lockvote_duration_ok(now, duration, vote)
             THEN Fail("Lock duration should be or bigger than vote expiry.")
           ELSE IF ~lockvote_once_ok(reference_index, sender)
             THEN Fail("You cannot lockvote twice.")
           ELSE IF ~lockvote_balance_ok(sender, deposit)
             THEN Fail("You cannot lock more than your free balance!")
           ELSE IF ~exists(VotesByIndex, reference_index)
             THEN Fail("Vote doesn't exists")
           ELSE IF ~lockvote_creator_ok(vote, sender)
             THEN Fail("You cannot vote your own vote.")
           ELSE IF ~lockvote_open_ok(vote, now)
             THEN Fail("This vote has already been expired.")
           ELSE IF ~lockvote_type_ok(vote)
             THEN Fail("This vote is not LockVote.")
           ELSE on_overflow(overflows(lock_of(reference_index, sender).deposit + deposit),
                /\ LockBalance' = lockvote_mutate(reference_index, sender, deposit,
                                                  duration, current_blocknumber)
                /\ set_lock(lock_id, sender, deposit)
                /\ IF rec.err # "Ok"
                     THEN /\ result' = rec.err
                          /\ UNCHANGED <<VotedAccounts, event_log>>
                     ELSE /\ VotedAccounts' = rec.voted
                          /\ deposit_event(Voted(sender, reference_index, ballot))
                          /\ result' = "Ok"
                /\ UNCHANGED <<AllVoteCount, VotesByIndex, VoteCreator, CreatedVoteCount,
                               VoteByCreatorArray, VoteResults, VoteIndexHash,
                               block_number>>))

(***************************************************************************)
(* withdraw.                                                               *)
(***************************************************************************)
withdraw_type_ok(vote) == vote.vote_type = 1
\* a variant: withdraw does not wait for the conclusion
withdraw_concluded_skipped(vote) == TRUE
withdraw_concluded_ok(vote) == vote.concluded = TRUE
withdraw_locked_ok(reference_index, sender) ==
    exists(LockBalance, <<reference_index, sender>>)
withdraw_period_ok(lock_info, now) == lock_info.until < now

withdraw(sender, reference_index) ==
    /\ LET vote == votes(reference_index)
           lock_info == lock_of(reference_index, sender)
       IN  IF ~withdraw_type_ok(vote)
             THEN Fail("This must be lockvote: vote_type: 1!")
           ELSE IF ~withdraw_concluded_ok(vote)
             THEN Fail("You have to wait at least until the vote concludes!")
           ELSE IF ~withdraw_locked_ok(reference_index, sender)
             THEN Fail("You need to participate lockvoting to call this function!")
           ELSE IF ~withdraw_period_ok(lock_info, block_number)
             THEN Fail("You need to wait until the lock period is over!")
           ELSE /\ remove_lock(to_be_bytes(reference_index), sender)
                /\ LockBalance' = remove(LockBalance, <<reference_index, sender>>)
                /\ deposit_event(Withdrew(sender, reference_index))
                /\ result' = "Ok"
                /\ UNCHANGED <<AllVoteCount, VotesByIndex, VoteCreator, CreatedVoteCount,
                               VoteByCreatorArray, VoteResults, VoteIndexHash,
                               VotedAccounts, block_number>>

(***************************************************************************)
(* tally.  It yields the error, or the Vec<u64> it inserts in VoteResults; *)
(* overflow tells whether a * or a += went beyond the u64 range.           *)
(***************************************************************************)
\* lock_vote.deposit.saturated_into::<u64>() * lock_vote.duration.saturated_into::<u64>()
vote_power(lock_vote) == saturated_into(lock_vote.deposit) * saturated_into(lock_vote.duration)

\* one for loop of the lock vote tally: count += vote_power, account by account
RECURSIVE tally_loop(_, _, _)
tally_loop(reference_index, vec, acc) ==
    IF vec = <<>> THEN acc
    ELSE LET lock_vote == lock_of(reference_index, Head(vec))
             power == vote_power(lock_vote)
         IN  tally_loop(reference_index, Tail(vec),
                        [count |-> wrap(acc.count + wrap(power)),
                         overflow |-> \/ acc.overflow
                                      \/ overflows(power)
                                      \/ overflows(acc.count + wrap(power))])

\* the vectors the two for loops of the lock vote tally iterate
tally_aye_accounts(reference_index) == accounts(reference_index, 0)
tally_nay_accounts(reference_index) == accounts(reference_index, 0)

\* a variant: both counts are taken from the aye vector
tally_simple_aye_twice(reference_index) ==
    <<Len(accounts(reference_index, 0)), Len(accounts(reference_index, 0))>>

\* the normal vote tally: the len() of the two vectors
tally_simple(reference_index) ==
    <<Len(accounts(reference_index, 0)), Len(accounts(reference_index, 1))>>

\* a variant: the arm of the other vote types lets every type through
tally_type_covered_any(vote) == TRUE
\* the ensure! of the arm of the other vote types
tally_type_covered(vote) == vote.vote_type <= 1

tally(reference_index) ==
    LET vote == votes(reference_index)
        zero == [count |-> 0, overflow |-> FALSE]
    IN  IF vote.vote_type = 0
        THEN [err |-> "Ok", overflow |-> FALSE, result |-> tally_simple(reference_index)]
        ELSE IF vote.vote_type = 1
        THEN LET aye == tally_loop(reference_index, tally_aye_accounts(reference_index), zero)
                 nay == tally_loop(reference_index, tally_nay_accounts(reference_index), zero)
             IN  [err |-> "Ok", overflow |-> aye.overflow \/ nay.overflow,
                  result |-> <<aye.count, nay.count>>]
        ELSE IF tally_type_covered(vote)
        THEN [err |-> "Ok", overflow |-> FALSE, result |-> <<0, 0>>]
        ELSE [err |-> "This vote_type is not covered.", overflow |-> FALSE,
              result |-> <<>>]

(***************************************************************************)
(* conclude_vote.  Both mutate calls write the entry back, also when it    *)
(* did not exist and the closure got the Default vote.                     *)
(***************************************************************************)
\* a variant: a concluded vote may be concluded again
conclude_open_skipped(vote) == TRUE
conclude_open_ok(vote) == vote.concluded = FALSE
\* a variant: a vote may be concluded at its expiry height
conclude_expired_at_expiry(vote, now) == now >= vote.vote_ends
conclude_expired_ok(vote, now) == now > vote.vote_ends

set_concluded(vote) == [vote EXCEPT !.concluded = TRUE]

conclude_vote(reference_index) ==
    /\ LET vote == votes(reference_index)
           now == block_number
           t == tally(reference_index)
       IN  IF ~conclude_open_ok(vote)
             THEN Fail("This vote has already concluded.")
           ELSE IF ~conclude_expired_ok(vote, now)
             THEN Fail("This vote hasn't been expired yet.")
           ELSE on_overflow(t.overflow,
           IF t.err # "Ok"
             THEN Fail(t.err)
           ELSE /\ VoteResults' = insert(VoteResults, reference_index, t.result)
                /\ VotesByIndex' = insert(VotesByIndex, reference_index, set_concluded(vote))
                /\ VoteByCreatorArray' =
                       insert(VoteByCreatorArray, <<vote.creator, reference_index>>,
                              set_concluded(get(VoteByCreatorArray,
                                                <<vote.creator, reference_index>>,
                                                DefaultVote)))
                /\ deposit_event(Concluded(reference_index))
                /\ result' = "Ok"
                /\ UNCHANGED <<AllVoteCount, VoteCreator, CreatedVoteCount, VoteIndexHash,
                               VotedAccounts, LockBalance, world, block_number>>)

(***************************************************************************)
(* The host: the next block.                                               *)
(***************************************************************************)
next_block ==
    /\ block_number < MaxHeight
    /\ block_number' = block_number + 1
    /\ result' = "Ok"
    /\ UNCHANGED <<store, world, event_log>>

Next ==
    \/ \E sender \in Accounts, vote_type \in VoteTypes, exp_length \in ExpLengths,
          data_len \in DataLens : create_vote(sender, vote_type, exp_length, data_len)
    \/ \E sender \in Accounts, reference_index \in RefIds, ballot \in Ballots :
          cast_ballot(sender, reference_index, ballot)
    \/ \E sender \in Accounts, reference_index \in RefIds, ballot \in Ballots,
          deposit \in Deposits, duration \in Durations :
          cast_lockvote(sender, reference_index, ballot, deposit, duration)
    \/ \E sender \in Accounts, reference_index \in RefIds : withdraw(sender, reference_index)
    \/ \E reference_index \in RefIds : conclude_vote(reference_index)
    \/ next_block

Spec == Init /\ [][Next]_vars

(***************************************************************************)
(* Vocabulary of the properties.                                           *)
(***************************************************************************)
\* the accounts of a vector, and the voter set of a side
Members(vec) == {vec[i] : i \in 1 .. Len(vec)}
Voters(id, side) == Members(accounts(id, side))
\* the vector of a side after the step
accounts_after(id, side) == get(VotedAccounts', <<id, side>>, <<>>)
\* everything a call may write or emit
effects == <<store, world, event_log>>
\* the step is a call that did not return Ok and changed nothing
Refused == result' # "Ok" /\ UNCHANGED effects
\* the vote id was allocated by create_vote
Created_by_call(id) == exists(VoteCreator, id)
\* the exact sum of deposit x duration over the LockInfo of a set of accounts
RECURSIVE SumPower(_, _)
SumPower(id, S) ==
    IF S = {} THEN 0
    ELSE LET who == CHOOSE w \in S : TRUE
         IN  lock_of(id, who).deposit * lock_of(id, who).duration
                 + SumPower(id, S \ {who})

(***************************************************************************)
(* C1.  Mutual exclusivity: for every vote id, no account is a member of   *)
(* both VotedAccounts(id, Aye) and VotedAccounts(id, Nay).                 *)
(***************************************************************************)
C1_MutualExclusivity ==
    \A id \in RefIds : Voters(id, 0) \cap Voters(id, 1) = {}

(***************************************************************************)
(* C2.  When conclude_vote succeeds on a LockWeighted vote, the result it  *)
(* writes is the sum of deposit x duration over the Aye voters' LockInfo,  *)
(* and the same sum taken over the Nay voters' LockInfo.                   *)
(***************************************************************************)
C2_LockTallyPerSide ==
    [][\A id \in RefIds :
          (/\ result' = "Ok"
           /\ Created_by_call(id)
           /\ votes(id).vote_type = 1
           /\ conclude_vote(id))
          => get(VoteResults', id, <<>>) =
                 <<SumPower(id, Voters(id, 0)), SumPower(id, Voters(id, 1))>>]_vars

(***************************************************************************)
(* C3.  Side switch: a successful cast_ballot by a voter recorded on the   *)
(* opposite side leaves the voter on the new side only, the old side's set *)
(* one smaller and the new side's set one larger.                          *)
(***************************************************************************)
C3_SideSwitch ==
    [][\A sender \in Accounts, id \in RefIds, ballot \in Ballots :
          LET new == SideOf(ballot)
              old == 1 - new
          IN  (/\ cast_ballot(sender, id, ballot)
               /\ result' = "Ok"
               /\ sender \in Voters(id, old))
              => /\ ~contains(accounts_after(id, old), sender)
                 /\ contains(accounts_after(id, new), sender)
                 /\ Len(accounts_after(id, old)) = Len(accounts(id, old)) - 1
                 /\ Len(accounts_after(id, new)) = Len(accounts(id, new)) + 1]_vars

(***************************************************************************)
(* C4.  conclude_vote on an existing vote fails, and changes nothing, when *)
(* the height is not strictly greater than the expiry height or when a     *)
(* conclusion of that vote has already succeeded; a vote is concluded at   *)
(* most once, at a height greater than its expiry height.                  *)
(***************************************************************************)
C4_ConcludeOnceAfterExpiry ==
    [][\A id \in RefIds :
          /\ \/ Refused
             \/ ~(/\ exists(VotesByIndex, id)
                  /\ \/ ~(block_number > votes(id).vote_ends)
                     \/ BagIn(Concluded(id), event_log)
                  /\ conclude_vote(id))
          /\ CopiesIn(Concluded(id), event_log') <= 1
          /\ (~BagIn(Concluded(id), event_log) /\ BagIn(Concluded(id), event_log'))
             => block_number > votes(id).vote_ends]_vars

\* a second conclude_vote of a created and concluded vote has been refused
C4_Witness ==
    /\ result = "This vote has already concluded."
    /\ \E id \in RefIds : Created_by_call(id) /\ BagIn(Concluded(id), event_log)

(***************************************************************************)
(* C5.  conclude_vote with a vote id that has no VoteRecord fails and      *)
(* leaves the store unchanged: no VoteRecord and no TallyResult appear at  *)
(* the id and no Concluded notification is emitted.                        *)
(***************************************************************************)
C5_ConcludeUnknownFails ==
    [][\A id \in RefIds :
          (conclude_vote(id) /\ ~exists(VotesByIndex, id))
          => /\ result' # "Ok"
             /\ ~exists(VotesByIndex', id)
             /\ ~exists(VoteResults', id)
             /\ event_log' = event_log]_vars

(***************************************************************************)
(* C6.  withdraw succeeds only when the vote is LockWeighted and           *)
(* concluded, a LockInfo exists for (vote, voter) and the height is        *)
(* strictly greater than its until; once it has succeeded for a pair,      *)
(* every further withdraw of the pair fails, and the currency lock of a    *)
(* pair is removed at most once.                                           *)
(***************************************************************************)
C6_WithdrawGate ==
    [][\A sender \in Accounts, id \in RefIds :
          /\ (result' = "Ok" /\ withdraw(sender, id))
             => /\ votes(id).vote_type = 1
                /\ votes(id).concluded
                /\ exists(LockBalance, <<id, sender>>)
                /\ block_number > lock_of(id, sender).until
                /\ ~BagIn(Withdrew(sender, id), event_log)
          /\ \/ Refused
             \/ ~(BagIn(Withdrew(sender, id), event_log) /\ withdraw(sender, id))
          /\ CopiesIn(<<"remove_lock", to_be_bytes(id), sender>>, currency_calls') <= 1]_vars

\* a lock has been withdrawn: its vote is concluded and its until has passed
C6_Witness ==
    \E sender \in Accounts, id \in RefIds :
        /\ BagIn(Withdrew(sender, id), event_log)
        /\ BagIn(<<"remove_lock", to_be_bytes(id), sender>>, currency_calls)
        /\ ~exists(LockBalance, <<id, sender>>)
        /\ ~exists(Locks, <<to_be_bytes(id), sender>>)
        /\ result = "You need to participate lockvoting to call this function!"

(***************************************************************************)
(* C7.  At most one lock per (vote, voter): cast_lockvote by a voter who   *)
(* has a LockInfo for the vote is rejected; a LockInfo keeps its deposit,  *)
(* duration and until for as long as it exists, is removed by a successful *)
(* withdraw only, and does not exist again after the withdrawal.           *)
(***************************************************************************)
C7_OneLockPerVoter ==
    [][\A sender \in Accounts, id \in RefIds :
          LET key == <<id, sender>>
          IN  /\ \/ Refused
                 \/ ~exists(LockBalance, key)
                 \/ \A ballot \in Ballots, deposit \in Deposits, duration \in Durations :
                       ~cast_lockvote(sender, id, ballot, deposit, duration)
              /\ (exists(LockBalance, key) /\ exists(LockBalance', key))
                 => LockBalance'[key] = LockBalance[key]
              /\ (exists(LockBalance, key) /\ ~exists(LockBalance', key))
                 => (result' = "Ok" /\ withdraw(sender, id))
              /\ BagIn(Withdrew(sender, id), event_log') => ~exists(LockBalance', key)
              /\ CopiesIn(<<"set_lock", to_be_bytes(id), sender>>, currency_calls') <= 1]_vars

\* a second cast_lockvote of a voter has been refused, the first lock standing
C7_Witness ==
    /\ result = "You cannot lockvote twice."
    /\ \E sender \in Accounts, id \in RefIds :
          /\ exists(LockBalance, <<id, sender>>)
          /\ sender \in Voters(id, 0) \cup Voters(id, 1)

(***************************************************************************)
(* C8.  The creator of a vote never votes on it: cast_ballot and           *)
(* cast_lockvote by the creator fail, whatever the vote type, and the      *)
(* creator is in neither voter set of the vote and has no LockInfo for it. *)
(***************************************************************************)
CreatorHasNotVoted ==
    \A id \in DOMAIN VotesByIndex :
        /\ votes(id).creator \notin Voters(id, 0) \cup Voters(id, 1)
        /\ ~exists(LockBalance, <<id, votes(id).creator>>)

C8_CreatorNeverVotes ==
    [][/\ \/ Refused
          \/ \A id \in DOMAIN VotesByIndex, ballot \in Ballots :
                LET sender == votes(id).creator
                IN  /\ ~cast_ballot(sender, id, ballot)
                    /\ \A deposit \in Deposits, duration \in Durations :
                          ~cast_lockvote(sender, id, ballot, deposit, duration)
       /\ CreatorHasNotVoted']_vars

\* a cast by the creator has been refused while others have voted
C8_Witness ==
    /\ result = "You cannot vote your own vote."
    /\ \E id \in RefIds : Created_by_call(id) /\ Voters(id, 0) \cup Voters(id, 1) # {}

(***************************************************************************)
(* C9.  All-or-nothing: a call that does not return Ok leaves the store    *)
(* and the currency locks unchanged and deposits no event.                 *)
(***************************************************************************)
C9_AllOrNothing ==
    [][result' # "Ok" => UNCHANGED effects]_vars

\* a cast_lockvote has been refused with locks and lock votes recorded
C9_Witness ==
    /\ result = "You cannot lock more than your free balance!"
    /\ LockBalance # EmptyMap
    /\ Locks # EmptyMap

(***************************************************************************)
(* C10.  When conclude_vote succeeds on a Simple vote, the result it       *)
(* writes is the pair of the cardinalities of the two voter sets.          *)
(***************************************************************************)
C10_SimpleTally ==
    [][\A id \in RefIds :
          (/\ result' = "Ok"
           /\ exists(VotesByIndex, id)
           /\ votes(id).vote_type = 0
           /\ conclude_vote(id))
          => /\ exists(VoteResults', id)
             /\ VoteResults'[id] =
                    <<Cardinality(Voters(id, 0)), Cardinality(Voters(id, 1))>>]_vars

\* a Simple vote with two Aye voters and one Nay voter has been concluded
C10_Witness ==
    \E id \in RefIds :
        /\ Created_by_call(id)
        /\ votes(id).vote_type = 0
        /\ votes(id).concluded
        /\ Cardinality(Voters(id, 0)) = 2
        /\ Cardinality(Voters(id, 1)) = 1
        /\ get(VoteResults, id, <<>>) = <<2, 1>>

(***************************************************************************)
(* C11.  Casting the same side twice is a hard rejection: a cast for side  *)
(* s by a voter recorded on side s fails and leaves both voter sets of the *)
(* vote unchanged; no account appears more than once in a side's vector.   *)
(***************************************************************************)
NoDuplicateVoter ==
    \A id \in RefIds, side \in {0, 1} :
        Cardinality(Voters(id, side)) = Len(accounts(id, side))

C11_SameSideRejected ==
    [][/\ \/ (/\ result' # "Ok"
              /\ \A id \in RefIds, side \in {0, 1} :
                    accounts_after(id, side) = accounts(id, side))
          \/ \A id \in RefIds, ballot \in Ballots :
                \A sender \in Voters(id, SideOf(ballot)) :
                    /\ ~cast_ballot(sender, id, ballot)
                    /\ \A deposit \in Deposits, duration \in Durations :
                          ~cast_lockvote(sender, id, ballot, deposit, duration)
       /\ NoDuplicateVoter']_vars

\* a second Aye of a voter has been refused, the voter standing once in the vector
C11_Witness ==
    /\ result = "You have already voted aye."
    /\ \E id \in RefIds : Voters(id, 0) # {} /\ NoDuplicateVoter

(***************************************************************************)
(* C12.  Concluded is terminal: a vote with concluded = true keeps it in   *)
(* every later state; VoteResults(id) is written by a successful           *)
(* conclude_vote(id) only, when none is stored, and is never changed or    *)
(* removed afterwards.                                                     *)
(***************************************************************************)
C12_ConcludedTerminal ==
    [][\A id \in RefIds :
          /\ votes(id).concluded
             => (exists(VotesByIndex', id) /\ VotesByIndex'[id].concluded)
          /\ exists(VoteResults, id)
             => (exists(VoteResults', id) /\ VoteResults'[id] = VoteResults[id])
          /\ (~exists(VoteResults, id) /\ exists(VoteResults', id))
             => (result' = "Ok" /\ conclude_vote(id))
          /\ \/ result' # "Ok"
             \/ ~exists(VoteResults, id)
             \/ ~conclude_vote(id)]_vars

\* a LockWeighted vote is concluded, its result stored and a lock withdrawn since
C12_Witness ==
    \E id \in RefIds, sender \in Accounts :
        /\ Created_by_call(id)
        /\ votes(id).concluded
        /\ exists(VoteResults, id)
        /\ BagIn(Withdrew(sender, id), event_log)
        /\ result = "This vote has already concluded."

(***************************************************************************)
(* C13.  conclude_vote on an expired vote whose vote_type is neither 0 nor *)
(* 1 fails with the error of the uncovered vote type: no result is         *)
(* written, concluded stays false and no Concluded event is deposited.     *)
(***************************************************************************)
C13_UncoveredTypeFails ==
    [][\A id \in DOMAIN VotesByIndex :
          (/\ votes(id).vote_type \notin {0, 1}
           /\ block_number > votes(id).vote_ends
           /\ conclude_vote(id))
          => /\ result' = "This vote_type is not covered."
             /\ UNCHANGED effects
             /\ ~exists(VoteResults', id)
             /\ ~VotesByIndex'[id].concluded
             /\ ~BagIn(Concluded(id), event_log')]_vars

\* conclude_vote of an expired vote of type 2 has been refused
C13_Witness ==
    /\ result = "This vote_type is not covered."
    /\ \E id \in RefIds :
          /\ votes(id).vote_type = 2
          /\ block_number > votes(id).vote_ends
          /\ ~votes(id).concluded

(***************************************************************************)
(* C14.  Vote ids are sequential and never reused: in every reachable      *)
(* state a vote record exists at id exactly when 1 <= id <= AllVoteCount,  *)
(* and create_vote never fails with "Vote already exists".                 *)
(***************************************************************************)
C14_SequentialIds ==
    /\ DOMAIN VotesByIndex = 1 .. AllVoteCount
    /\ result # "Vote already exists"

(***************************************************************************)
(* C15.  Every vote record stored by create_vote has vote_ends > when,     *)
(* strictly, for every exp_length create_vote accepts.                     *)
(***************************************************************************)
C15_ExpiryAfterCreation ==
    \A id \in DOMAIN VoteCreator : votes(id).vote_ends > votes(id).when

(***************************************************************************)
(* C16.  Ballots are accepted only strictly before expiry: cast_ballot and *)
(* cast_lockvote fail when the height is at or past vote_ends.  From the   *)
(* expiry height on, and whenever the vote is concluded, both voter        *)
(* vectors of the vote stay as they are and no new LockInfo is created     *)
(* for it.                                                                 *)
(***************************************************************************)
C16_ClosedAtExpiry ==
    [][\A id \in DOMAIN VotesByIndex :
          \/ (block_number < votes(id).vote_ends /\ ~votes(id).concluded)
          \/ /\ \A side \in {0, 1} : accounts_after(id, side) = accounts(id, side)
             /\ \A who \in Accounts :
                   exists(LockBalance', <<id, who>>) => exists(LockBalance, <<id, who>>)
             /\ \/ result' # "Ok"
                \/ \A sender \in Accounts, ballot \in Ballots :
                      /\ ~cast_ballot(sender, id, ballot)
                      /\ \A deposit \in Deposits, duration \in Durations :
                            ~cast_lockvote(sender, id, ballot, deposit, duration)]_vars

\* a ballot for a vote that had taken ballots has been refused at or past its expiry
C16_Witness ==
    /\ result = "This vote has already been expired."
    /\ \E id \in RefIds :
          /\ Created_by_call(id)
          /\ block_number >= votes(id).vote_ends
          /\ Voters(id, 0) \cup Voters(id, 1) # {}

(***************************************************************************)
(* C17.  Every lock outlasts its vote: each LockInfo of (id, who) has      *)
(* until = height of its cast_lockvote + duration and until >= vote_ends   *)
(* of the vote; cast_lockvote with height + duration < vote_ends fails.    *)
(***************************************************************************)
C17_LockOutlastsVote ==
    [][/\ \A id \in RefIds, who \in Accounts :
             exists(LockBalance', <<id, who>>)
             => LET lock_info == LockBalance'[<<id, who>>]
                IN  /\ lock_info.until >= votes(id).vote_ends
                    /\ ~exists(LockBalance, <<id, who>>)
                       => lock_info.until = block_number + lock_info.duration
       /\ \/ Refused
          \/ \A id \in DOMAIN VotesByIndex, duration \in Durations :
                block_number + duration < votes(id).vote_ends
                => \A sender \in Accounts, ballot \in Ballots, deposit \in Deposits :
                      ~cast_lockvote(sender, id, ballot, deposit, duration)]_vars

\* a lock that would end before the vote has been refused, a longer one standing
C17_Witness ==
    /\ result = "Lock duration should be or bigger than vote expiry."
    /\ \E id \in RefIds, who \in Accounts :
          /\ exists(LockBalance, <<id, who>>)
          /\ lock_of(id, who).until >= votes(id).vote_ends
          /\ block_number + 1 < votes(id).vote_ends

(***************************************************************************)
(* C18.  The lock vote tally never wraps: when conclude_vote succeeds on a *)
(* LockWeighted vote, each weight it stores is the exact sum of deposit x  *)
(* duration over the accounts its loop iterates, or the largest value of   *)
(* the word where the exact sum is above it; a smaller, wrapped weight is  *)
(* never stored.                                                           *)
(***************************************************************************)
C18_TallyNeverWraps ==
    [][\A id \in RefIds :
          (/\ result' = "Ok"
           /\ Created_by_call(id)
           /\ votes(id).vote_type = 1
           /\ conclude_vote(id))
          => get(VoteResults', id, <<>>) =
                 <<saturated_into(SumPower(id, Members(tally_aye_accounts(id)))),
                   saturated_into(SumPower(id, Members(tally_nay_accounts(id))))>>]_vars

(***************************************************************************)
(* C19.  Locked funds are never stuck: for every LockInfo of (id, who),    *)
(* at a height above both vote_ends of the vote and until of the lock,     *)
(* conclude_vote(id) succeeds if the vote is not concluded, and            *)
(* withdraw(who, id) succeeds once it is.                                  *)
(***************************************************************************)
C19_LocksNeverStuck ==
    [][\A id \in RefIds, who \in Accounts :
          (/\ exists(LockBalance, <<id, who>>)
           /\ block_number > votes(id).vote_ends
           /\ block_number > lock_of(id, who).until)
          => /\ (~votes(id).concluded /\ conclude_vote(id)) => result' = "Ok"
             /\ (votes(id).concluded /\ withdraw(who, id)) => result' = "Ok"]_vars

(***************************************************************************)
(* C20.  Voter vectors and lock records agree: for a LockWeighted vote not *)
(* yet concluded, an account is in the Aye or the Nay vector exactly when  *)
(* LockBalance holds a LockInfo of it for the vote; for a vote of type 0   *)
(* no LockInfo exists.                                                     *)
(***************************************************************************)
Lockers(id) == {who \in Accounts : exists(LockBalance, <<id, who>>)}

C20_VotersAreLockers ==
    \A id \in DOMAIN VotesByIndex :
        /\ (votes(id).vote_type = 1 /\ ~votes(id).concluded)
           => Voters(id, 0) \cup Voters(id, 1) = Lockers(id)
        /\ votes(id).vote_type = 0 => Lockers(id) = {}

\* an open LockWeighted vote with a locker on each side
C20_Witness ==
    \E id \in RefIds :
        /\ Created_by_call(id)
        /\ votes(id).vote_type = 1
        /\ ~votes(id).concluded
        /\ Voters(id, 0) # {}
        /\ Voters(id, 1) # {}
        /\ Voters(id, 0) \cup Voters(id, 1) = Lockers(id)

(***************************************************************************)
(* C21.  Event order per vote id: exactly one Created(_, id) is deposited  *)
(* before any Voted(_, id, _), Concluded(id) or Withdrew(_, id); every     *)
(* Voted(_, id, _) comes before Concluded(id); Concluded(id) is deposited  *)
(* at most once; every Withdrew(_, id) comes after Concluded(id).          *)
(***************************************************************************)
Deposited(event) == CopiesIn(event, event_log') > CopiesIn(event, event_log)

CreatedOnce(id) ==
    \E who \in Accounts :
        /\ CopiesIn(Created(who, id), event_log) = 1
        /\ \A other \in Accounts \ {who} : ~BagIn(Created(other, id), event_log)

VotedDeposited(id) ==
    \E who \in Accounts, ballot \in Ballots : Deposited(Voted(who, id, ballot))

WithdrewDeposited(id) == \E who \in Accounts : Deposited(Withdrew(who, id))

C21_EventOrder ==
    [][\A id \in RefIds :
          /\ (VotedDeposited(id) \/ Deposited(Concluded(id)) \/ WithdrewDeposited(id))
             => CreatedOnce(id)
          /\ VotedDeposited(id) => ~BagIn(Concluded(id), event_log)
          /\ CopiesIn(Concluded(id), event_log') <= 1
          /\ WithdrewDeposited(id) => BagIn(Concluded(id), event_log)]_vars

=============================================================================
